---------------------------- MODULE Spec2Model ----------------------------
(***************************************************************************)
(* Tempo Practice Calculator (src/tempo-calculator.js).                    *)
(*                                                                         *)
(* A JavaScript number is modelled as a pair <<n, d>>: a rational n/d in   *)
(* lowest terms with d > 0, or one of the three non-finite values          *)
(* NaN = <<0,0>>, +Infinity = <<1,0>>, -Infinity = <<-1,0>>.  Arithmetic   *)
(* on the finite values is exact (no binary rounding); comparisons and     *)
(* arithmetic on the non-finite values follow IEEE 754 as JavaScript does. *)
(***************************************************************************)
EXTENDS Integers, Sequences, FiniteSets, TLC

VARIABLES eng,        \* the activation record of calculateTempoPracticeTime
          called,     \* which of displayResults / showError the last submit called
          display,    \* textContent of the result elements
          hidden,     \* resultsSection has class 'hidden'
          dom,        \* attached .error-message elements, in document order
          timers,     \* per error element: the state of its removal timers
          nextId      \* identity of the next error element created

vars == <<eng, called, display, hidden, dom, timers, nextId>>

----------------------------------------------------------------------------
(* Bounds of the model *)

MaxTempo == 5
MaxStep == 3
MaxCount == 2
MaxErrors == 3

----------------------------------------------------------------------------
(* JavaScript numbers *)

NaN == <<0, 0>>
Unset == <<>>

Abs(i) == IF i < 0 THEN -i ELSE i
Sgn(i) == IF i < 0 THEN -1 ELSE IF i = 0 THEN 0 ELSE 1

RECURSIVE GCD(_, _)
GCD(x, y) == IF y = 0 THEN x ELSE GCD(y, x % y)

Norm(n, d) ==
    LET g == GCD(Abs(n), Abs(d))
        sg == IF d < 0 THEN -1 ELSE 1
    IN  <<sg * (n \div g), sg * (d \div g)>>

IntNum(i) == <<i, 1>>
Frac(n, d) == Norm(n, d)

IsNaN(x) == x = NaN
IsFinite(x) == x[2] # 0

Num(x) == x[1]
Den(x) == x[2]

\* x + y
Add(x, y) ==
    IF IsFinite(x) /\ IsFinite(y)
    THEN LET g == GCD(Den(x), Den(y))
             l == (Den(x) \div g) * Den(y)
         IN  Norm(Num(x) * (l \div Den(x)) + Num(y) * (l \div Den(y)), l)
    ELSE IF IsNaN(x) \/ IsNaN(y) THEN NaN
    ELSE IF IsFinite(x) THEN y
    ELSE IF IsFinite(y) THEN x
    ELSE IF x = y THEN x ELSE NaN

Neg(x) == <<-Num(x), Den(x)>>

\* x - y
Sub(x, y) == Add(x, Neg(y))

\* x * y
Mul(x, y) ==
    IF IsFinite(x) /\ IsFinite(y)
    THEN LET g1 == GCD(Abs(Num(x)), Den(y))
             g2 == GCD(Abs(Num(y)), Den(x))
         IN  IF Num(x) = 0 \/ Num(y) = 0 THEN IntNum(0)
             ELSE <<(Num(x) \div g1) * (Num(y) \div g2),
                    (Den(x) \div g2) * (Den(y) \div g1)>>
    ELSE IF IsNaN(x) \/ IsNaN(y) THEN NaN
    ELSE IF Num(x) = 0 \/ Num(y) = 0 THEN NaN
    ELSE <<Sgn(Num(x)) * Sgn(Num(y)), 0>>

\* x / y
Div(x, y) ==
    IF IsNaN(x) \/ IsNaN(y) THEN NaN
    ELSE IF IsFinite(x) /\ IsFinite(y)
    THEN IF Num(y) = 0
         THEN <<Sgn(Num(x)), 0>>
         ELSE Mul(x, Norm(Den(y), Num(y)))
    ELSE IF IsFinite(x) THEN IntNum(0)
    ELSE IF IsFinite(y) THEN <<Sgn(Num(x)) * (IF Num(y) < 0 THEN -1 ELSE 1), 0>>
    ELSE NaN

\* -1, 0, 1 as x is below, equal to or above y (neither is NaN)
Cmp(x, y) ==
    IF IsFinite(x) /\ IsFinite(y)
    THEN Sgn(Num(x) * Den(y) - Num(y) * Den(x))
    ELSE IF IsFinite(x) THEN -Num(y)
    ELSE IF IsFinite(y) THEN Num(x)
    ELSE Sgn(Num(x) - Num(y))

\* the relational operators: every comparison with NaN is false
Lt(x, y) == ~IsNaN(x) /\ ~IsNaN(y) /\ Cmp(x, y) < 0
Le(x, y) == ~IsNaN(x) /\ ~IsNaN(y) /\ Cmp(x, y) <= 0
Gt(x, y) == ~IsNaN(x) /\ ~IsNaN(y) /\ Cmp(x, y) > 0
Ge(x, y) == ~IsNaN(x) /\ ~IsNaN(y) /\ Cmp(x, y) >= 0

\* Math.floor
Floor(x) == IF IsFinite(x) THEN IntNum(Num(x) \div Den(x)) ELSE x

\* Math.abs
AbsNum(x) == <<Abs(Num(x)), Den(x)>>

IsWhole(x) == IsFinite(x) /\ Den(x) = 1

----------------------------------------------------------------------------
(* calculateTempoPracticeTime, statement by statement.  The activation     *)
(* record holds the parameters, the locals of the function and of kahanSum *)
(* (Unset until the statement that assigns them has run), the error thrown *)
(* and two observation fields: divisors, every right operand of a division *)
(* evaluated so far, and visited, the indices the loop of kahanSum read.   *)

NoError == "none"

InitCall(p) ==
    [pc |-> "validate", a |-> p.a, b |-> p.b, s |-> p.s,
     B |-> p.B, R |-> p.R, N |-> p.N, err |-> NoError,
     K |-> Unset, n |-> Unset, bPrime |-> Unset, C |-> Unset,
     k |-> Unset, stepTimes |-> <<>>, tempos |-> <<>>,
     i |-> Unset, sum |-> Unset, compensation |-> Unset,
     sumExact |-> Unset, totalExact |-> Unset,
     S |-> Unset, P |-> Unset, termIntegral |-> Unset, termCorrection |-> Unset,
     sumApprox |-> Unset, totalApprox |-> Unset, errorRate |-> Unset,
     divisors |-> <<>>, visited |-> <<>>]

Idle == [InitCall([a |-> Unset, b |-> Unset, s |-> Unset,
                   B |-> Unset, R |-> Unset, N |-> Unset]) EXCEPT !.pc = "idle"]

Throw(e, kind) == [e EXCEPT !.pc = "error", !.err = kind]

\* mutant of Validate: the tempo checks moved ahead of the step check
ValidateTempoFirst(e) ==
    IF Le(e.a, IntNum(0)) \/ Le(e.b, IntNum(0)) THEN Throw(e, "NonPositiveTempo")
    ELSE IF Ge(e.a, e.b) THEN Throw(e, "InvalidTempoRange")
    ELSE IF Le(e.s, IntNum(0)) THEN Throw(e, "NonPositiveStep")
    ELSE IF Le(e.B, IntNum(0)) \/ Le(e.R, IntNum(0)) \/ Le(e.N, IntNum(0))
         THEN Throw(e, "NonPositiveCount")
    ELSE [e EXCEPT !.pc = "derive"]

\* the four checks, in the order of the source
Validate(e) ==
    IF Le(e.s, IntNum(0)) THEN Throw(e, "NonPositiveStep")
    ELSE IF Le(e.a, IntNum(0)) \/ Le(e.b, IntNum(0)) THEN Throw(e, "NonPositiveTempo")
    ELSE IF Ge(e.a, e.b) THEN Throw(e, "InvalidTempoRange")
    ELSE IF Le(e.B, IntNum(0)) \/ Le(e.R, IntNum(0)) \/ Le(e.N, IntNum(0))
         THEN Throw(e, "NonPositiveCount")
    ELSE [e EXCEPT !.pc = "derive"]

\* mutant of StepCount: Math.ceil in place of Math.floor
StepCountCeil(a, b, s) == Neg(Floor(Neg(Div(Sub(b, a), s))))

\* n = Math.floor((b - a) / s)
StepCount(a, b, s) == Floor(Div(Sub(b, a), s))

\* K, n, b', C, and the start of the for loop (k = 0)
Derive(e) ==
    LET K == Mul(e.B, e.R)
        n == StepCount(e.a, e.b, e.s)
    IN  [e EXCEPT !.pc = "loop",
                  !.K = K,
                  !.n = n,
                  !.bPrime = Add(e.a, Mul(n, e.s)),
                  !.C = Mul(IntNum(60), K),
                  !.divisors = Append(@, e.s),
                  !.k = IntNum(0)]

\* mutant of LoopCond: k < n in place of k <= n
LoopCondStrict(k, n) == Lt(k, n)

\* the loop condition of the step-time loop
LoopCond(k, n) == Le(k, n)

\* mutant of KahanFirst: the loop of kahanSum starts at the second element
KahanFromSecond == 1 + 1

\* the index kahanSum starts from (numbers[0]; sequences here start at 1)
KahanFirst == 1

\* one turn of for (k = 0; k <= n; k++), or the loop's exit into kahanSum
LoopStep(e) ==
    IF LoopCond(e.k, e.n)
    THEN LET tempo == Add(e.a, Mul(e.s, e.k))
         IN  [e EXCEPT !.stepTimes = Append(@, Div(e.C, tempo)),
                       !.tempos = Append(@, tempo),
                       !.divisors = Append(@, tempo),
                       !.k = Add(@, IntNum(1))]
    ELSE [e EXCEPT !.pc = "kahan", !.i = IntNum(KahanFirst),
                   !.sum = IntNum(0), !.compensation = IntNum(0)]

\* one turn of the loop of kahanSum over stepTimes, or its return and
\* totalExact = sumExact * N
KahanStep(e) ==
    IF Le(e.i, IntNum(Len(e.stepTimes)))
    THEN LET y == Sub(e.stepTimes[Num(e.i)], e.compensation)
             t == Add(e.sum, y)
         IN  [e EXCEPT !.compensation = Sub(Sub(t, e.sum), y),
                       !.sum = t,
                       !.visited = Append(@, Num(e.i)),
                       !.i = Add(@, IntNum(1))]
    ELSE [e EXCEPT !.pc = "approx",
                   !.sumExact = e.sum,
                   !.totalExact = Mul(e.sum, e.N)]

\* mutant of TermIntegral: the number of terms, n + 1, in place of n
TermIntegralCountsTerms(n, S, P) ==
    Div(Mul(Mul(IntNum(4), Add(n, IntNum(1))), S), Add(Mul(S, S), Mul(IntNum(4), P)))

\* termIntegral = (4 * n * S) / (S * S + 4 * P)
TermIntegral(n, S, P) ==
    Div(Mul(Mul(IntNum(4), n), S), Add(Mul(S, S), Mul(IntNum(4), P)))

\* mutant of TermCorrection: S / P, the factor 2 dropped
TermCorrectionNoHalf(S, P) == Div(S, P)

\* termCorrection = S / (2 * P)
TermCorrection(S, P) == Div(S, Mul(IntNum(2), P))

\* the rational S-P formula
Approx(e) ==
    LET S == Add(e.a, e.bPrime)
        P == Mul(e.a, e.bPrime)
        termIntegral == TermIntegral(e.n, S, P)
        termCorrection == TermCorrection(S, P)
        sumApprox == Mul(e.C, Add(termIntegral, termCorrection))
    IN  [e EXCEPT !.pc = "rate",
                  !.S = S, !.P = P,
                  !.termIntegral = termIntegral,
                  !.termCorrection = termCorrection,
                  !.sumApprox = sumApprox,
                  !.totalApprox = Mul(sumApprox, e.N),
                  !.divisors = @ \o <<Add(Mul(S, S), Mul(IntNum(4), P)),
                                      Mul(IntNum(2), P)>>]

\* errorRate = ((totalApprox - totalExact) / totalExact) * 100, and the return
ErrorRate(e) ==
    [e EXCEPT !.pc = "done",
              !.errorRate = Mul(Div(Sub(e.totalApprox, e.totalExact), e.totalExact),
                                IntNum(100)),
              !.divisors = Append(@, e.totalExact)]

EngineStep(e) ==
    CASE e.pc = "validate" -> Validate(e)
      [] e.pc = "derive" -> Derive(e)
      [] e.pc = "loop" -> LoopStep(e)
      [] e.pc = "kahan" -> KahanStep(e)
      [] e.pc = "approx" -> Approx(e)
      [] e.pc = "rate" -> ErrorRate(e)

Returned(e) == e.pc \in {"done", "error"}

RECURSIVE Run(_)
Run(e) == IF Returned(e) THEN e ELSE Run(EngineStep(e))

\* the whole call
calculateTempoPracticeTime(params) == Run(InitCall(params))

----------------------------------------------------------------------------
(* The engine alone: every parameter tuple of the bounded domain, the call *)
(* executed one statement group at a time.                                 *)

Tempos == {NaN} \cup {IntNum(v) : v \in -1..MaxTempo}
Steps == {NaN, Frac(1, 2)} \cup {IntNum(v) : v \in 0..MaxStep}
Counts == {NaN, Frac(3, 2)} \cup {IntNum(v) : v \in 0..MaxCount}

Params == [a : Tempos, b : Tempos, s : Steps, B : Counts, R : Counts, N : Counts]

UIInit ==
    /\ called = {}
    /\ display = Unset
    /\ hidden = TRUE
    /\ dom = <<>>
    /\ timers = [m \in 1..MaxErrors |-> "none"]
    /\ nextId = 1

UIUnchanged == UNCHANGED <<called, display, hidden, dom, timers, nextId>>

EngineInit == (\E p \in Params : eng = InitCall(p)) /\ UIInit

DoValidate == eng.pc = "validate" /\ eng' = Validate(eng) /\ UIUnchanged
DoDerive == eng.pc = "derive" /\ eng' = Derive(eng) /\ UIUnchanged
DoLoopStep == eng.pc = "loop" /\ eng' = LoopStep(eng) /\ UIUnchanged
DoKahanStep == eng.pc = "kahan" /\ eng' = KahanStep(eng) /\ UIUnchanged
DoApprox == eng.pc = "approx" /\ eng' = Approx(eng) /\ UIUnchanged
DoErrorRate == eng.pc = "rate" /\ eng' = ErrorRate(eng) /\ UIUnchanged

EngineNext ==
    \/ DoValidate
    \/ DoDerive
    \/ DoLoopStep
    \/ DoKahanStep
    \/ DoApprox
    \/ DoErrorRate

SpecEngine == EngineInit /\ [][EngineNext]_vars

----------------------------------------------------------------------------
(* The page: the form, the result elements, the error elements and their   *)
(* removal timers.  The text of a form field is blank or a decimal         *)
(* numeral, held as the number it denotes.                                 *)

Text(x) == [blank |-> FALSE, num |-> x]
Blank == [blank |-> TRUE, num |-> NaN]

\* parseFloat of a field's text
ParseFloat(t) == IF t.blank THEN NaN ELSE t.num

\* parseInt(text, 10): the digits before the decimal point
ParseInt(t) ==
    IF t.blank THEN NaN
    ELSE IntNum(Sgn(Num(t.num)) * (Abs(Num(t.num)) \div Den(t.num)))

\* x % m of JavaScript: the remainder takes the sign of the dividend
Rem(x, m) ==
    IF ~IsFinite(x) THEN NaN
    ELSE LET q == Div(x, m)
             tr == IntNum(Sgn(Num(q)) * (Abs(Num(q)) \div Den(q)))
         IN  Sub(x, Mul(m, tr))

\* formatTime: the components of h:mm:ss, or of m:ss when hours is 0
formatTime(seconds) ==
    LET hours == Floor(Div(seconds, IntNum(3600)))
        minutes == Floor(Div(Rem(seconds, IntNum(3600)), IntNum(60)))
        secs == Floor(Rem(seconds, IntNum(60)))
    IN  IF Gt(hours, IntNum(0)) THEN <<hours, minutes, secs>>
        ELSE <<minutes, secs>>

\* Number.prototype.toFixed(f): the number of 10^-f units nearest to x, the
\* larger one on a tie; "NaN" and "Infinity" print as themselves
toFixed(x, f) ==
    IF ~IsFinite(x) THEN x
    ELSE LET u == Floor(Add(Mul(AbsNum(x), IntNum(10 ^ f)), Frac(1, 2)))
         IN  <<Sgn(Num(x)) * Num(u), 10 ^ f>>

\* the textContent displayResults writes
Rendered(e) ==
    [totalTime |-> formatTime(e.totalExact),
     totalTimeSeconds |-> toFixed(e.totalExact, 2),
     stepCount |-> e.n,
     actualEndTempo |-> e.bPrime,
     exactTime |-> toFixed(e.totalExact, 4),
     approxTime |-> toFixed(e.totalApprox, 4),
     errorRate |-> <<Ge(e.errorRate, IntNum(0)), toFixed(e.errorRate, 4)>>,
     totalBeatsPerStep |-> e.K]

\* displayResults(data)
displayResults(e) ==
    /\ display' = Rendered(e)
    /\ hidden' = FALSE
    /\ UNCHANGED <<dom, timers, nextId>>

\* showError(message): the existing .error-message (the first in document
\* order) is removed, a new element is inserted before the form, and its
\* 3000 ms timer is set
showError ==
    /\ dom' = Append(IF dom # <<>> THEN Tail(dom) ELSE dom, nextId)
    /\ timers' = [timers EXCEPT ![nextId] = "t3000"]
    /\ nextId' = nextId + 1
    /\ UNCHANGED <<display, hidden>>

\* mutant of Handlers: a catch block that only logs the error
HandlersSilentCatch(e) == IF e.err = NoError THEN {"displayResults"} ELSE {}

\* the handlers a submit ends in: try { calculate; displayResults } catch { showError }
Handlers(e) == IF e.err = NoError THEN {"displayResults"} ELSE {"showError"}

\* handleSubmit, for the texts of the six fields
handleSubmit(f) ==
    LET params == [a |-> ParseFloat(f.startTempo),
                   b |-> ParseFloat(f.endTempo),
                   s |-> ParseFloat(f.stepSize),
                   B |-> ParseInt(f.beatsPerPhrase),
                   R |-> ParseInt(f.repetitions),
                   N |-> ParseInt(f.sets)]
        result == calculateTempoPracticeTime(params)
    IN  /\ eng' = result
        /\ called' = Handlers(result)
        /\ IF "displayResults" \in Handlers(result)
           THEN displayResults(result)
           ELSE IF "showError" \in Handlers(result)
                THEN nextId <= MaxErrors /\ showError
                ELSE UNCHANGED <<display, hidden, dom, timers, nextId>>

Remove(seq, m) == SelectSeq(seq, LAMBDA x : x # m)

\* mutant of RemovedBy: the callback removes whatever .error-message the
\* document holds when it fires
RemovedByQuery(m) == IF dom # <<>> THEN Head(dom) ELSE m

\* the element a 300 ms callback removes: the errorDiv its closure captured
RemovedBy(m) == m

\* the 3000 ms callback of element m: fade out, set the 300 ms timer.
\* Timers of equal delay fire in the order they were set.
Timer3000(m) ==
    /\ timers[m] = "t3000"
    /\ \A o \in 1..(m - 1) : timers[o] # "t3000"
    /\ timers' = [timers EXCEPT ![m] = "t300"]
    /\ UNCHANGED <<eng, called, display, hidden, dom, nextId>>

\* the 300 ms callback of element m: errorDiv.remove()
Timer300(m) ==
    /\ timers[m] = "t300"
    /\ \A o \in 1..(m - 1) : timers[o] # "t300"
    /\ dom' = Remove(dom, RemovedBy(m))
    /\ timers' = [timers EXCEPT ![m] = "fired"]
    /\ UNCHANGED <<eng, called, display, hidden, nextId>>

FormTexts ==
    [startTempo : {Blank, Text(IntNum(1))},
     endTempo : {Text(IntNum(3))},
     stepSize : {Text(IntNum(0)), Text(IntNum(1)), Text(IntNum(4))},
     beatsPerPhrase : {Text(Frac(3, 2)), Text(Frac(1, 2))},
     repetitions : {Text(IntNum(1))},
     sets : {Text(IntNum(2))}]

Init == eng = Idle /\ UIInit

\* the form's submit event
Submit == \E f \in FormTexts : handleSubmit(f)

\* keydown of Ctrl/Cmd + Enter: form.dispatchEvent(new Event('submit'))
CtrlEnter == \E f \in FormTexts : handleSubmit(f)
Fire3000 == \E m \in 1..MaxErrors : Timer3000(m)
Fire300 == \E m \in 1..MaxErrors : Timer300(m)

Next ==
    \/ Submit
    \/ CtrlEnter
    \/ Fire3000
    \/ Fire300

Spec == Init /\ [][Next]_vars

\* a timer that was set fires
SpecLive == Spec /\ WF_vars(Fire3000) /\ WF_vars(Fire300)

----------------------------------------------------------------------------
(* Vocabulary of the properties *)

Zero == IntNum(0)

\* the checks of the validator an input violates, by number
Violated(e) ==
    {c \in 1..4 :
        \/ c = 1 /\ Le(e.s, Zero)
        \/ c = 2 /\ (Le(e.a, Zero) \/ Le(e.b, Zero))
        \/ c = 3 /\ Ge(e.a, e.b)
        \/ c = 4 /\ (Le(e.B, Zero) \/ Le(e.R, Zero) \/ Le(e.N, Zero))}

ErrorOfCheck ==
    <<"NonPositiveStep", "NonPositiveTempo", "InvalidTempoRange", "NonPositiveCount">>

Lowest(set) == CHOOSE c \in set : \A o \in set : c <= o

\* the tempo range and the step of a validated input: 0 < a < b, s > 0
ValidRange(e) == Gt(e.a, Zero) /\ Lt(e.a, e.b) /\ Gt(e.s, Zero)

\* a validated input: the invariant of PracticeParameters
Validated(e) ==
    ValidRange(e) /\ Gt(e.B, Zero) /\ Gt(e.R, Zero) /\ Gt(e.N, Zero)

PositiveWhole(x) == IsWhole(x) /\ Gt(x, Zero)

Computed(e) == e.pc \in {"loop", "kahan", "approx", "rate", "done"}
Summed(e) == e.pc \in {"approx", "rate", "done"}

RECURSIVE PlainSum(_)
PlainSum(seq) == IF seq = <<>> THEN Zero ELSE Add(Head(seq), PlainSum(Tail(seq)))

Range(seq) == {seq[x] : x \in DOMAIN seq}

\* the engine's result for the parameters of e with step size s2
WithStep(e, s2) ==
    calculateTempoPracticeTime([a |-> e.a, b |-> e.b, s |-> s2,
                                B |-> e.B, R |-> e.R, N |-> e.N])

----------------------------------------------------------------------------
(* The properties *)

\* C1: once validation has run, the error raised is that of the
\* lowest-numbered check the input violates, and an input that violates no
\* check raises no error.
C1_FirstFailingCheck ==
    eng.pc \notin {"idle", "validate"} =>
        IF Violated(eng) = {}
        THEN eng.err = NoError /\ eng.pc # "error"
        ELSE eng.pc = "error" /\ eng.err = ErrorOfCheck[Lowest(Violated(eng))]

\* C1 witness: an input violating all four checks at once was rejected.
C1_Witness ==
    eng.pc = "error" /\ Violated(eng) = 1..4 /\ eng.err = "NonPositiveStep"

\* C2 (as claimed): an input of six finite numbers that passes checks 1 to
\* 3 and in which beatsPerPhrase, repetitions or sets is not a positive whole number is
\* rejected with NonPositiveCount and never reaches the computation.
C2_AsClaimed ==
    (/\ eng.pc \notin {"idle", "validate"}
     /\ Violated(eng) \cap 1..3 = {}
     /\ \A x \in {eng.a, eng.b, eng.s, eng.B, eng.R, eng.N} : IsFinite(x)
     /\ ~(PositiveWhole(eng.B) /\ PositiveWhole(eng.R) /\ PositiveWhole(eng.N)))
    => eng.pc = "error" /\ eng.err = "NonPositiveCount"

\* after a submit: a call that raised an error computed nothing and ended
\* in showError alone; a call that returned ended in displayResults alone
NothingComputedOnError ==
    /\ eng.err # NoError =>
          /\ eng.pc = "error"
          /\ eng.K = Unset /\ eng.n = Unset /\ eng.bPrime = Unset /\ eng.C = Unset
          /\ eng.stepTimes = <<>> /\ eng.divisors = <<>>
          /\ eng.totalExact = Unset /\ eng.totalApprox = Unset
          /\ eng.errorRate = Unset
          /\ called = {"showError"}
    /\ eng.pc = "done" => called = {"displayResults"} /\ display = Rendered(eng)
    /\ eng.pc # "idle" => Cardinality(called) = 1
    /\ hidden => display = Unset

\* the page effects of one submit: an error element is created only by a
\* submit whose call raised an error, and that submit leaves the result
\* elements as they were; the result elements change only in a submit whose
\* call returned, and that submit creates no error element
OneHandlerPerSubmit ==
    /\ nextId' # nextId =>
          /\ eng'.pc = "error" /\ called' = {"showError"}
          /\ dom' = <<nextId>>
          /\ UNCHANGED <<display, hidden>>
    /\ (display' # display \/ hidden' # hidden) =>
          /\ eng'.pc = "done" /\ called' = {"displayResults"}
          /\ UNCHANGED <<dom, timers, nextId>>
    /\ eng' # eng => nextId' # nextId \/ display' = Rendered(eng')

\* C3: a call that raises an error has computed nothing (K, n, b', C, the
\* step times and every result field are unassigned), and each submit ends
\* in exactly one of displayResults and showError: showError when the
\* calculation raised an error, displayResults when it returned.
C3_FailFast == []NothingComputedOnError /\ [][OneHandlerPerSubmit]_vars

\* C3 witness: a submit failed after one succeeded: the error element is
\* attached and the earlier result is still displayed.
C3_Witness ==
    /\ eng.pc = "error" /\ called = {"showError"}
    /\ dom # <<>> /\ ~hidden

\* x is an exact multiple of s
IsMultiple(x, s) == \E m \in 0..(2 * MaxTempo + 2) : Mul(IntNum(m), s) = x

C5_ExactSum ==
    (Summed(eng) /\ Validated(eng)) =>
        LET n == Num(eng.n)
        IN  /\ eng.C = Mul(IntNum(60), Mul(eng.B, eng.R))
            /\ Len(eng.stepTimes) = n + 1
            /\ Len(eng.tempos) = n + 1
            /\ \A k \in 0..n :
                  /\ eng.tempos[k + 1] = Add(eng.a, Mul(eng.s, IntNum(k)))
                  /\ eng.stepTimes[k + 1] = Div(eng.C, eng.tempos[k + 1])
            /\ eng.tempos[1] = eng.a
            /\ eng.tempos[n + 1] = eng.bPrime
            /\ eng.visited = [x \in 1..(n + 1) |-> x]
            /\ eng.sumExact = PlainSum(eng.stepTimes)
            /\ eng.totalExact = Mul(eng.N, PlainSum(eng.stepTimes))

\* C5 witness: a sum of at least three different terms, scaled by N > 1.
C5_Witness ==
    /\ eng.pc = "done" /\ Validated(eng)
    /\ Len(eng.stepTimes) >= 3 /\ Gt(eng.N, IntNum(1))
    /\ eng.totalExact # eng.sumExact

\* C6 (as claimed): after a call that passed the four checks, every
\* divisor the computation used is strictly positive.
C6_AsClaimed ==
    eng.pc = "done" => \A d \in Range(eng.divisors) : Gt(d, Zero)

\* C7: for a validated input with b - a < s the step-time sequence has the
\* single term C / a, no division misbehaves, b' = a, and exactSeconds is
\* C / a * N.
C7_SingleStep ==
    (eng.pc = "done" /\ Validated(eng) /\ Lt(Sub(eng.b, eng.a), eng.s)) =>
        /\ eng.n = Zero
        /\ eng.tempos = <<eng.a>>
        /\ eng.stepTimes = <<Div(eng.C, eng.a)>>
        /\ eng.bPrime = eng.a
        /\ eng.err = NoError
        /\ \A d \in Range(eng.divisors) : Gt(d, Zero)
        /\ IsFinite(eng.totalExact) /\ IsFinite(eng.totalApprox)
        /\ IsFinite(eng.errorRate)
        /\ eng.totalExact = Mul(Div(eng.C, eng.a), eng.N)

\* C7 witness: the step overshoots the target at once (a = 2, b = 3, s = 3).
C7_Witness ==
    /\ eng.pc = "done" /\ Validated(eng)
    /\ eng.a = IntNum(2) /\ eng.b = IntNum(3) /\ eng.s = IntNum(3)
    /\ Len(eng.stepTimes) = 1

AtMostOneError == Len(dom) <= 1

\* an element leaves the page only through its own 300 ms callback or
\* through the showError that replaces it
OnlyOwnTimerRemoves ==
    \A m \in Range(dom) :
        m \notin Range(dom') =>
            \/ timers[m] = "t300" /\ timers'[m] = "fired"
            \/ nextId' = nextId + 1 /\ dom' = <<nextId>>

\* C10: at most one error element is attached at any time, the timer of an
\* earlier element never removes a later one, and every element inserted
\* is eventually removed.
C10_ErrorElements ==
    /\ []AtMostOneError
    /\ [][OnlyOwnTimerRemoves]_vars
    /\ \A m \in 1..MaxErrors : [](m \in Range(dom) => <>(m \notin Range(dom)))

\* C10 witness: the timers of the first element have both fired while the
\* second element, inserted in between, is still attached.
C10_Witness ==
    /\ timers[1] = "fired" /\ dom = <<2>> /\ timers[2] = "t3000"

============================================================================
